---- MODULE Spec2Model ----
(***************************************************************************)
(* The pharmacy schema of medical_control/pharmacy/models.py as a state    *)
(* machine: the state is the content of the tables the models declare, the *)
(* operations are the ORM's create (Model.objects.create / save),          *)
(* update (save of a stored row) and delete (Model.delete, which runs      *)
(* Django's deletion collector over the on_delete policies), each with or  *)
(* without model validation (full_clean) before the row is written.        *)
(***************************************************************************)
EXTENDS Integers, FiniteSets, Sequences, TLC

\* ------------------------------------------------------------------ bounds

\* Primary keys and foreign-key values offered to the operations are 1..MaxId.
MaxId == 2
\* Quantities offered to the operations are -1..MaxQuantity.
MaxQuantity == 1
\* Prices offered to the operations are 0..MaxPrice.
MaxPrice == 1
\* Rows per table in the catalog scope (Product, Batch, Warehouse, Inventory).
MaxCatalogRows == 2
\* Rows per table in the other scopes.
MaxRows == 1
\* Rows in the whole database in the scopes over every model.
MaxTotalRows == 6

\* The null of a nullable column (null=True); primary keys start at 1.
NULL == 0

Ids == 1..MaxId
NullableIds == Ids \cup {NULL}
Quantities == (0 - 1)..MaxQuantity
Prices == 0..MaxPrice

\* ------------------------------------------------------------- enumerations

OrderStatus == {"draft", "sent", "received", "cancelled"}
ReceiptStatus == {"pending", "partial", "completed", "rejected"}
SaleStatus == {"open", "completed", "returned"}

\* A string of at most max_length=20 characters that no enumeration lists.
Unlisted == "bogus"

ProductCodes == {"A", "B"}

\* ------------------------------------------------------------------ schema
\* One definition per model: the values its columns take in an operation's
\* argument (the primary key is assigned by the operation).

Product == [product_code : ProductCodes]

Batch == [product : Ids]

Warehouse == [name : {"w"}]

Inventory ==
    [warehouse : Ids, product : Ids, batch : NullableIds,
     quantity : Quantities, cost_price : Prices, retail_price : Prices]

Supplier == [name : {"s"}]

PurchaseOrder ==
    [supplier : Ids, warehouse : Ids, status : OrderStatus \cup {Unlisted}]

PurchaseOrderDetail == [purchase_order : Ids, product : Ids, quantity : Quantities]

GoodsReceipt ==
    [purchase_order : NullableIds, warehouse : Ids,
     status : ReceiptStatus \cup {Unlisted}]

GoodsReceiptDetail ==
    [goods_receipt : Ids, product : Ids, batch : NullableIds, quantity : Quantities]

Customer == [name : {"c"}]

User == [username : {"u"}]

Sale ==
    [warehouse : Ids, cashier : NullableIds, customer : NullableIds,
     status : SaleStatus \cup {Unlisted}]

SaleDetail == [sale : Ids, product : Ids, batch : NullableIds, quantity : Quantities]

WriteOff == [warehouse : Ids, product : Ids, batch : NullableIds, quantity : Quantities]

Models ==
    {"Product", "Batch", "Warehouse", "Inventory", "Supplier", "PurchaseOrder",
     "PurchaseOrderDetail", "GoodsReceipt", "GoodsReceiptDetail", "Customer",
     "User", "Sale", "SaleDetail", "WriteOff"}

Fields(t) ==
    CASE t = "Product" -> Product
      [] t = "Batch" -> Batch
      [] t = "Warehouse" -> Warehouse
      [] t = "Inventory" -> Inventory
      [] t = "Supplier" -> Supplier
      [] t = "PurchaseOrder" -> PurchaseOrder
      [] t = "PurchaseOrderDetail" -> PurchaseOrderDetail
      [] t = "GoodsReceipt" -> GoodsReceipt
      [] t = "GoodsReceiptDetail" -> GoodsReceiptDetail
      [] t = "Customer" -> Customer
      [] t = "User" -> User
      [] t = "Sale" -> Sale
      [] t = "SaleDetail" -> SaleDetail
      [] t = "WriteOff" -> WriteOff

\* ------------------------------------------------------------ foreign keys
\* One definition per models.ForeignKey: the model that holds it, the column,
\* the model it points to and its on_delete policy.

FK(model, name, to, on_delete) ==
    [model |-> model, name |-> name, to |-> to, on_delete |-> on_delete]

Batch_product_do_nothing == FK("Batch", "product", "Product", "DO_NOTHING")
Batch_product == FK("Batch", "product", "Product", "CASCADE")
Inventory_warehouse == FK("Inventory", "warehouse", "Warehouse", "CASCADE")
Inventory_product == FK("Inventory", "product", "Product", "CASCADE")
Inventory_batch_cascade == FK("Inventory", "batch", "Batch", "CASCADE")
Inventory_batch == FK("Inventory", "batch", "Batch", "SET_NULL")
PurchaseOrder_supplier == FK("PurchaseOrder", "supplier", "Supplier", "CASCADE")
PurchaseOrder_warehouse == FK("PurchaseOrder", "warehouse", "Warehouse", "CASCADE")
PurchaseOrderDetail_purchase_order ==
    FK("PurchaseOrderDetail", "purchase_order", "PurchaseOrder", "CASCADE")
PurchaseOrderDetail_product ==
    FK("PurchaseOrderDetail", "product", "Product", "CASCADE")
GoodsReceipt_purchase_order_cascade ==
    FK("GoodsReceipt", "purchase_order", "PurchaseOrder", "CASCADE")
GoodsReceipt_purchase_order ==
    FK("GoodsReceipt", "purchase_order", "PurchaseOrder", "SET_NULL")
GoodsReceipt_warehouse == FK("GoodsReceipt", "warehouse", "Warehouse", "CASCADE")
GoodsReceiptDetail_goods_receipt ==
    FK("GoodsReceiptDetail", "goods_receipt", "GoodsReceipt", "CASCADE")
GoodsReceiptDetail_product ==
    FK("GoodsReceiptDetail", "product", "Product", "CASCADE")
GoodsReceiptDetail_batch == FK("GoodsReceiptDetail", "batch", "Batch", "SET_NULL")
Sale_warehouse == FK("Sale", "warehouse", "Warehouse", "CASCADE")
Sale_cashier_cascade == FK("Sale", "cashier", "User", "CASCADE")
Sale_cashier == FK("Sale", "cashier", "User", "SET_NULL")
Sale_customer_do_nothing == FK("Sale", "customer", "Customer", "DO_NOTHING")
Sale_customer == FK("Sale", "customer", "Customer", "SET_NULL")
SaleDetail_sale == FK("SaleDetail", "sale", "Sale", "CASCADE")
SaleDetail_product == FK("SaleDetail", "product", "Product", "CASCADE")
SaleDetail_batch == FK("SaleDetail", "batch", "Batch", "SET_NULL")
WriteOff_warehouse == FK("WriteOff", "warehouse", "Warehouse", "CASCADE")
WriteOff_product == FK("WriteOff", "product", "Product", "CASCADE")
WriteOff_batch == FK("WriteOff", "batch", "Batch", "SET_NULL")

ForeignKeys ==
    {Batch_product, Inventory_warehouse, Inventory_product, Inventory_batch,
     PurchaseOrder_supplier, PurchaseOrder_warehouse,
     PurchaseOrderDetail_purchase_order, PurchaseOrderDetail_product,
     GoodsReceipt_purchase_order, GoodsReceipt_warehouse,
     GoodsReceiptDetail_goods_receipt, GoodsReceiptDetail_product,
     GoodsReceiptDetail_batch, Sale_warehouse, Sale_cashier, Sale_customer,
     SaleDetail_sale, SaleDetail_product, SaleDetail_batch,
     WriteOff_warehouse, WriteOff_product, WriteOff_batch}

ForeignKeysByModel == [t \in Models |-> {fk \in ForeignKeys : fk.model = t}]

ForeignKeysOf(t) == ForeignKeysByModel[t]

\* -------------------------------------------------------------- constraints

UniqueColumns_none(t) == {}

\* unique=True columns.
UniqueColumns(t) == IF t = "Product" THEN {"product_code"} ELSE {}

\* Meta.unique_together.
UniqueTogether(t) ==
    IF t = "Inventory" THEN {"warehouse", "product", "batch"} ELSE {}

PositiveIntegerFields_not_on_write_off(t) ==
    IF t \in {"Inventory", "PurchaseOrderDetail", "GoodsReceiptDetail", "SaleDetail"}
    THEN {"quantity"} ELSE {}

\* PositiveIntegerField columns: a CHECK (column >= 0) in the table, and a
\* MinValueValidator(0) in validation.
PositiveIntegerFields(t) ==
    IF t \in {"Inventory", "PurchaseOrderDetail", "GoodsReceiptDetail",
              "SaleDetail", "WriteOff"}
    THEN {"quantity"} ELSE {}

HasChoices_not_on_sale(t) == t \in {"PurchaseOrder", "GoodsReceipt"}

\* choices= of the status columns.
HasChoices(t) == t \in {"PurchaseOrder", "GoodsReceipt", "Sale"}

Choices(t) ==
    CASE t = "PurchaseOrder" -> OrderStatus
      [] t = "GoodsReceipt" -> ReceiptStatus
      [] t = "Sale" -> SaleStatus

\* ------------------------------------------------------------------- state

VARIABLES
    db,     \* db[t]: the rows of model t's table, each with its id
    last    \* the last operation and what it raised or returned

vars == <<db, last>>

Stored(t, v, pk) == [f \in DOMAIN v \cup {"id"} |-> IF f = "id" THEN pk ELSE v[f]]

Values(r) == [f \in DOMAIN r \ {"id"} |-> r[f]]

Present(t, pk) == \E r \in db[t] : r.id = pk

RowOf(t, pk) == CHOOSE r \in db[t] : r.id = pk

TotalRows == Cardinality(UNION {{<<t, r.id>> : r \in db[t]} : t \in Models})

\* The AutoField's next primary key. A key is offered again once its row is
\* deleted, which keeps the keys within Ids.
NextId(t) == CHOOSE pk \in Ids : ~Present(t, pk) /\ \A q \in 1..(pk - 1) : Present(t, q)

ForeignKeyViolated(t, v) ==
    \E fk \in ForeignKeysOf(t) : v[fk.name] # NULL /\ ~Present(fk.to, v[fk.name])

CheckViolated(t, v) == \E f \in PositiveIntegerFields(t) : v[f] < 0

ChoicesViolated(t, v) == HasChoices(t) /\ v.status \notin Choices(t)

UniqueViolated(t, v, pk) ==
    \E f \in UniqueColumns(t) : \E r \in db[t] : r.id # pk /\ r[f] = v[f]

\* Two rows collide on a multi-column key when they agree on every column and
\* none is NULL: to a UNIQUE constraint (SQL's, as in SQLite, PostgreSQL and
\* MySQL) and to validate_unique alike, a key holding a NULL equals no key.
Collides(cols, a, b) ==
    /\ cols # {}
    /\ \A f \in cols : a[f] = b[f]
    /\ \A f \in cols : a[f] # NULL

UniqueTogetherViolated(t, v, pk) ==
    \E r \in db[t] : r.id # pk /\ Collides(UniqueTogether(t), r, v)

\* Model.full_clean(): clean_fields (choices, validators, the foreign key's
\* target exists) and validate_unique (unique columns, unique_together).
full_clean(t, v, pk) ==
    {c \in {"choices", "check", "foreign_key", "unique"} :
        \/ c = "choices" /\ ChoicesViolated(t, v)
        \/ c = "check" /\ CheckViolated(t, v)
        \/ c = "foreign_key" /\ ForeignKeyViolated(t, v)
        \/ c = "unique" /\ \/ UniqueViolated(t, v, pk)
                           \/ UniqueTogetherViolated(t, v, pk)}

\* The constraints the table itself carries: UNIQUE, FOREIGN KEY, CHECK.
\* choices= puts no constraint in the table.
DatabaseConstraints(t, v, pk) ==
    {c \in {"check", "foreign_key", "unique"} :
        \/ c = "check" /\ CheckViolated(t, v)
        \/ c = "foreign_key" /\ ForeignKeyViolated(t, v)
        \/ c = "unique" /\ \/ UniqueViolated(t, v, pk)
                           \/ UniqueTogetherViolated(t, v, pk)}

\* What the last call did: the exception it raised with the constraints that
\* were violated, or, for a delete, the count of deleted rows per model that
\* Model.delete() returns.
Returned(op, t, exc, violated, deleted) ==
    [op |-> op, model |-> t, exc |-> exc, violated |-> violated, deleted |-> deleted]

Raised(op, t, exc, violated) == Returned(op, t, exc, violated, {})

\* What a save of values v as row pk of t raises: validation first when the
\* caller cleans the instance, then the INSERT or UPDATE.
SaveOutcome(op, t, v, pk, clean) ==
    LET invalid == IF clean THEN full_clean(t, v, pk) ELSE {}
        broken == DatabaseConstraints(t, v, pk)
    IN  IF invalid # {} THEN Raised(op, t, "ValidationError", invalid)
        ELSE IF broken # {} THEN Raised(op, t, "IntegrityError", broken)
        ELSE Raised(op, t, "none", {})

Init ==
    /\ db = [t \in Models |-> {}]
    /\ last = Raised("none", "none", "none", {})

\* ---------------------------------------------------------------- deletion
\* django.db.models.deletion.Collector: objects are <<model, id>> pairs.

\* The rows that point to an object of `objs` through a key with policy `how`.
Related(objs, how) ==
    UNION {{<<fk.model, r.id>> : r \in {x \in db[fk.model] : <<fk.to, x[fk.name]>> \in objs}}
           : fk \in {k \in ForeignKeys : k.on_delete = how}}

\* Collector.collect: CASCADE collects the referring rows, and theirs in turn.
RECURSIVE Collect(_)
Collect(objs) ==
    LET more == objs \cup Related(objs, "CASCADE")
    IN  IF more = objs THEN objs ELSE Collect(more)

\* Collector.add_field_update: SET_NULL sets the column of a row that refers to
\* a collected object to NULL.
SetNull(t, r, objs) ==
    [f \in DOMAIN r |->
        IF \E fk \in ForeignKeysOf(t) :
               fk.name = f /\ fk.on_delete = "SET_NULL" /\ <<fk.to, r[f]>> \in objs
        THEN NULL ELSE r[f]]

\* Collector.delete, first half: the field updates.
FieldUpdates(objs) == [t \in Models |-> {SetNull(t, r, objs) : r \in db[t]}]

\* Collector.delete, second half: the collected rows leave their tables.
DeleteCollected(tables, objs) ==
    [t \in Models |-> {r \in tables[t] : <<t, r.id>> \notin objs}]

\* The rows deleted, counted per model.
Counts(objs) ==
    {<<m, Cardinality({o \in objs : o[1] = m})>> : m \in {o[1] : o \in objs}}

\* --------------------------------------------------------------- operations

\* Model.objects.create(**v), after full_clean() when `clean`.
Create(t, v, clean) ==
    /\ v \in Fields(t)
    /\ last' = SaveOutcome("create", t, v, NULL, clean)
    /\ db' = IF last'.exc = "none"
             THEN [db EXCEPT ![t] = @ \cup {Stored(t, v, NextId(t))}]
             ELSE db

\* Assigning to a column of the stored row pk, which leaves it with values v,
\* and save(), after full_clean() when `clean`.
Update(t, pk, v, clean) ==
    /\ Present(t, pk)
    /\ v \in Fields(t)
    /\ last' = SaveOutcome("update", t, v, pk, clean)
    /\ db' = IF last'.exc = "none"
             THEN [db EXCEPT ![t] = (@ \ {RowOf(t, pk)}) \cup {Stored(t, v, pk)}]
             ELSE db

\* instance.delete() of the stored row pk: the collector's field updates, then
\* its deletes, in one transaction.
Delete(t, pk) ==
    /\ Present(t, pk)
    /\ LET objs == Collect({<<t, pk>>})
       IN  /\ db' = DeleteCollected(FieldUpdates(objs), objs)
           /\ last' = Returned("delete", t, "none", {}, Counts(objs))

\* A scope bounds an exploration: the rows a table holds at most (sc.rows), the
\* rows the database holds at most (sc.total), the values offered to create and
\* update (sc.inputs) and whether the caller validates (sc.clean).
Room(sc, t) ==
    /\ Cardinality(db[t]) < sc.rows[t]
    /\ TotalRows < sc.total

\* The values of sc.inputs that differ from the row r in one column.
Assignments(sc, t, r) ==
    {v \in sc.inputs[t] : \E f \in DOMAIN v :
        v[f] # r[f] /\ \A g \in DOMAIN v \ {f} : v[g] = r[g]}

Next(sc) ==
    \/ \E t \in {m \in Models : Room(sc, m)} :
          \E v \in sc.inputs[t] : \E clean \in sc.clean : Create(t, v, clean)
    \/ \E t \in Models : \E r \in db[t] :
          \E v \in Assignments(sc, t, r) : \E clean \in sc.clean :
              Update(t, r.id, v, clean)
    \/ \E t \in Models : \E r \in db[t] : Delete(t, r.id)

\* ------------------------------------------------------------------ scopes

Pools(models, n) == [t \in Models |-> IF t \in models THEN n ELSE 0]

\* The values whose foreign keys are primary keys the scope's tables can hold.
InScope(rows, t) ==
    {v \in Fields(t) : \A fk \in ForeignKeysOf(t) : v[fk.name] <= rows[fk.to]}

DefaultStatus(v) ==
    "status" \in DOMAIN v => v.status \in {"draft", "pending", "open"}

AtOnePrice(v) ==
    "cost_price" \in DOMAIN v => v.cost_price = 0 /\ v.retail_price = 0

\* The catalog: two products, their batches, one warehouse and its stock at
\* one price.
Catalog ==
    LET rows == [Pools({"Product", "Batch", "Inventory"}, MaxCatalogRows)
                    EXCEPT !["Warehouse"] = MaxCatalogRows - 1]
    IN  [rows |-> rows,
         total |-> 4 * MaxCatalogRows,
         inputs |-> [t \in Models |-> {v \in InScope(rows, t) : AtOnePrice(v)}],
         clean |-> BOOLEAN]

\* One stock row at every quantity and price, saved with one of the batches it
\* may refer to.
Stock ==
    LET rows == [Pools({"Product", "Warehouse", "Inventory"}, MaxRows)
                    EXCEPT !["Batch"] = MaxRows + 1]
    IN  [rows |-> rows,
         total |-> 4 * MaxRows + 1,
         inputs |-> [t \in Models |->
                      {v \in InScope(rows, t) : "batch" \in DOMAIN v => v.batch # NULL}],
         clean |-> BOOLEAN]

\* The documents that carry a status, and what they refer to.
Documents ==
    LET rows == Pools({"Supplier", "Warehouse", "PurchaseOrder", "GoodsReceipt",
                       "Sale"}, MaxRows)
    IN  [rows |-> rows,
         total |-> 5 * MaxRows,
         inputs |-> [t \in Models |-> InScope(rows, t)],
         clean |-> BOOLEAN]

\* Every model, a few rows at a time, each document in its default status.
Everything ==
    LET rows == Pools(Models, MaxRows)
    IN  [rows |-> rows,
         total |-> MaxTotalRows,
         inputs |-> [t \in Models |->
                      {v \in InScope(rows, t) : DefaultStatus(v) /\ AtOnePrice(v)}],
         clean |-> BOOLEAN]

\* The models a warehouse's rows are spread over, with a second warehouse,
\* every quantity 0 and no validation.
Warehouses ==
    LET rows == [Pools(Models \ {"User"}, MaxRows) EXCEPT !["Warehouse"] = MaxRows + 1]
    IN  [rows |-> rows,
         total |-> MaxTotalRows + 1,
         inputs |-> [t \in Models |->
                      {v \in InScope(rows, t) :
                          /\ DefaultStatus(v) /\ AtOnePrice(v)
                          /\ "quantity" \in DOMAIN v => v.quantity = 0}],
         clean |-> {FALSE}]

Spec == Init /\ [][Next(Catalog)]_vars

SpecStock == Init /\ [][Next(Stock)]_vars

SpecDocuments == Init /\ [][Next(Documents)]_vars

SpecEverything == Init /\ [][Next(Everything)]_vars

SpecWarehouses == Init /\ [][Next(Warehouses)]_vars

\* ------------------------------------------------------------------ claims

Rejected(constraint) ==
    /\ db' = db
    /\ last'.exc # "none"
    /\ constraint \in last'.violated

\* The step is a completed delete of the row pk of model t.
Deleted(t, pk) ==
    /\ last'.op = "delete" /\ last'.model = t /\ last'.exc = "none"
    /\ Present(t, pk)
    /\ \A r \in db'[t] : r.id # pk

ProductCodesUnique(products) ==
    \A a, b \in products : a.id # b.id => a.product_code # b.product_code

\* C1: creating a Product with the product_code of a stored Product fails with
\* a uniqueness violation and leaves the stored Products as they were; after
\* every create, update and delete no two Products share a product_code.
C1_ProductCodeUnique ==
    [][/\ \A v \in Product : \A clean \in BOOLEAN :
             (/\ Create("Product", v, clean)
              /\ \E r \in db["Product"] : r.product_code = v.product_code)
             => Rejected("unique")
       /\ ProductCodesUnique(db'["Product"])]_vars

\* C1's case: a create of a Product was refused for its product_code while the
\* Product that holds the code is stored.
C1_Witness ==
    /\ last.op = "create" /\ last.model = "Product"
    /\ last.exc = "IntegrityError" /\ last.violated = {"unique"}
    /\ db["Product"] # {}

SameTriple(a, b) ==
    a.warehouse = b.warehouse /\ a.product = b.product /\ a.batch = b.batch

\* C2: creating an Inventory row (of a quantity the table accepts) with the
\* (warehouse, product, batch) of a stored Inventory row fails with a uniqueness violation and leaves the stored
\* rows as they were, whatever the triple, a null batch included.
C2_InventoryTripleCreateRejected ==
    [][(last'.op = "create" /\ last'.model = "Inventory") =>
          \A v \in Inventory : \A clean \in BOOLEAN :
             (/\ Create("Inventory", v, clean)
              /\ v.quantity >= 0
              /\ \E r \in db["Inventory"] : SameTriple(r, v))
             => Rejected("unique")]_vars

\* C3: no two distinct Inventory rows have the same (warehouse, product, batch),
\* a null batch included.
C3_InventoryTripleUnique ==
    \A a, b \in db["Inventory"] : a.id # b.id => ~SameTriple(a, b)

\* C4: deleting a Batch keeps every Inventory row that refers to it: the row is
\* still stored afterwards, its batch is null, and its warehouse, product,
\* quantity, cost_price and retail_price are what they were.
C4_BatchDeleteNullsInventory ==
    [][\A b \in db["Batch"] : Deleted("Batch", b.id) =>
          \A r \in db["Inventory"] :
             r.batch = b.id => [r EXCEPT !.batch = NULL] \in db'["Inventory"]]_vars

\* C4's case: a Batch was deleted and a stock row, saved with a batch, a
\* quantity and prices, is stored with a null batch.
C4_Witness ==
    /\ last.op = "delete" /\ last.model = "Batch"
    /\ \E r \in db["Inventory"] :
          r.batch = NULL /\ r.quantity > 0 /\ r.cost_price > 0 /\ r.retail_price > 0

\* C5: deleting a Product deletes its Batches and its Inventory rows: afterwards
\* no Batch and no Inventory row refers to it, and the Batches and Inventory
\* rows of other Products are still stored.
C5_ProductDeleteCascades ==
    [][\A p \in db["Product"] : Deleted("Product", p.id) =>
          /\ \A b \in db'["Batch"] : b.product # p.id
          /\ \A r \in db'["Inventory"] : r.product # p.id
          /\ \A b \in db["Batch"] : b.product # p.id => b \in db'["Batch"]
          /\ \A r \in db["Inventory"] :
                r.product # p.id =>
                   \E q \in db'["Inventory"] : q.id = r.id /\ q.product = r.product]_vars

\* C5's case: a Product was deleted; the second Product, its Batch and its
\* Inventory row, each created while a first one was stored, are what is left.
C5_Witness ==
    /\ last.op = "delete" /\ last.model = "Product"
    /\ \A t \in {"Product", "Batch", "Inventory"} : {r.id : r \in db[t]} = {MaxCatalogRows}
    /\ \A r \in db["Batch"] \cup db["Inventory"] : r.product = MaxCatalogRows

StatusModels == {"PurchaseOrder", "GoodsReceipt", "Sale"}

StatusEnumeration(t) ==
    CASE t = "PurchaseOrder" -> {"draft", "sent", "received", "cancelled"}
      [] t = "GoodsReceipt" -> {"pending", "partial", "completed", "rejected"}
      [] t = "Sale" -> {"open", "completed", "returned"}

\* The step is a save (a create, or an update of a stored row) of values v to
\* model t, validated or not.
Saves(t, v, clean) ==
    \/ Create(t, v, clean)
    \/ \E r \in db[t] : Update(t, r.id, v, clean)

\* C6 as claimed: a save of a status outside its enumeration fails validation,
\* and every stored status is one of its enumerated values.
C6_StatusAlwaysEnumerated ==
    [][/\ (last'.op \in {"create", "update"} /\ last'.model \in StatusModels) =>
             \A v \in Fields(last'.model) :
                (v.status \notin StatusEnumeration(last'.model) /\ Saves(last'.model, v, TRUE))
                => (Rejected("choices") /\ last'.exc = "ValidationError")
       /\ \A t \in StatusModels : \A r \in db'[t] : r.status \in StatusEnumeration(t)]_vars

\* C6 as amended: a validated save (full_clean, then save) of a status outside
\* its enumeration fails validation and stores nothing.
C6_ValidationRejectsUnlistedStatus ==
    [][(last'.op \in {"create", "update"} /\ last'.model \in StatusModels) =>
          \A v \in Fields(last'.model) :
             (v.status \notin StatusEnumeration(last'.model) /\ Saves(last'.model, v, TRUE))
             => (Rejected("choices") /\ last'.exc = "ValidationError")]_vars

\* C6's case: validation refused a status assigned to a stored Sale.
C6_Witness ==
    /\ last.op = "update" /\ last.model = "Sale"
    /\ last.exc = "ValidationError" /\ last.violated = {"choices"}
    /\ \E r \in db["Sale"] : r.status \in StatusEnumeration("Sale")

QuantityModels ==
    {"Inventory", "PurchaseOrderDetail", "GoodsReceiptDetail", "SaleDetail", "WriteOff"}

\* The outcome of a save is an exception that names the constraint.
Refuses(outcome, constraint) ==
    outcome.exc # "none" /\ constraint \in outcome.violated

\* C7: the quantity of every Inventory, PurchaseOrderDetail, GoodsReceiptDetail,
\* SaleDetail and WriteOff row is at least 0; a create or an update that would
\* store a negative quantity is refused as a constraint violation, and a save
\* that is refused leaves the stored rows as they were.
C7_QuantityNonNegative ==
    /\ [](\A t \in QuantityModels :
             /\ \A r \in db[t] : r.quantity >= 0
             /\ \A v \in Everything.inputs[t] : \A clean \in BOOLEAN :
                   v.quantity < 0 =>
                      /\ Refuses(SaveOutcome("create", t, v, NULL, clean), "check")
                      /\ \A r \in db[t] :
                            Refuses(SaveOutcome("update", t, v, r.id, clean), "check"))
    /\ [][last'.exc # "none" => db' = db]_vars

\* C7's case: the table refused a negative quantity assigned to a stored
\* WriteOff.
C7_Witness ==
    /\ last.op = "update" /\ last.model = "WriteOff"
    /\ last.exc = "IntegrityError" /\ last.violated = {"check"}
    /\ \E r \in db["WriteOff"] : r.quantity >= 0

\* The references the claims list: <<model, column, model referred to>>.
OptionalReferences ==
    {<<"Inventory", "batch", "Batch">>,
     <<"GoodsReceiptDetail", "batch", "Batch">>,
     <<"SaleDetail", "batch", "Batch">>,
     <<"WriteOff", "batch", "Batch">>,
     <<"GoodsReceipt", "purchase_order", "PurchaseOrder">>,
     <<"Sale", "cashier", "User">>,
     <<"Sale", "customer", "Customer">>}

RequiredReferences ==
    {<<"Batch", "product", "Product">>,
     <<"Inventory", "warehouse", "Warehouse">>,
     <<"Inventory", "product", "Product">>,
     <<"PurchaseOrder", "supplier", "Supplier">>,
     <<"PurchaseOrder", "warehouse", "Warehouse">>,
     <<"PurchaseOrderDetail", "purchase_order", "PurchaseOrder">>,
     <<"PurchaseOrderDetail", "product", "Product">>,
     <<"GoodsReceipt", "warehouse", "Warehouse">>,
     <<"GoodsReceiptDetail", "goods_receipt", "GoodsReceipt">>,
     <<"GoodsReceiptDetail", "product", "Product">>,
     <<"Sale", "warehouse", "Warehouse">>,
     <<"SaleDetail", "sale", "Sale">>,
     <<"SaleDetail", "product", "Product">>,
     <<"WriteOff", "warehouse", "Warehouse">>,
     <<"WriteOff", "product", "Product">>}

References == RequiredReferences \cup OptionalReferences

\* The row or values r of model t refers, through a reference of refs, to a row
\* that tables does not hold.
Dangling(tables, refs, t, r) ==
    \E ref \in refs :
        /\ ref[1] = t
        /\ r[ref[2]] # NULL
        /\ \A x \in tables[ref[3]] : x.id # r[ref[2]]

\* C8: every non-null reference of a stored row points to a stored row, after
\* every create, update and delete over all the models, and the create of a row
\* that refers to a row that is not stored is refused.
C8_ForeignKeysHold ==
    \A t \in Models :
        /\ \A r \in db[t] : ~Dangling(db, References, t, r)
        /\ \A v \in Everything.inputs[t] : \A clean \in BOOLEAN :
              Dangling(db, References, t, v) =>
                 Refuses(SaveOutcome("create", t, v, NULL, clean), "foreign_key")

\* C8's case: the create of a SaleDetail that refers to rows that are not
\* stored was refused, after a delete had emptied the table referred to.
C8_Witness ==
    /\ last.op = "create" /\ last.model = "SaleDetail"
    /\ last.exc = "IntegrityError" /\ last.violated = {"foreign_key"}
    /\ db["Sale"] = {} /\ db["Product"] # {} /\ db["Warehouse"] # {}

Objects(tables) == UNION {{<<t, r.id>> : r \in tables[t]} : t \in Models}

\* The stored row x = <<model, id>> refers to the row y through a reference of
\* refs.
Refers(refs, x, y) ==
    \E ref \in refs :
        /\ ref[1] = x[1] /\ ref[3] = y[1]
        /\ \E r \in db[x[1]] : r.id = x[2] /\ r[ref[2]] = y[2]

\* The row r of model t with every optional reference to a row of gone nulled.
Nulled(t, r, gone) ==
    [f \in DOMAIN r |->
        IF \E ref \in OptionalReferences :
               ref[1] = t /\ ref[2] = f /\ <<ref[3], r[f]>> \in gone
        THEN NULL ELSE r[f]]

\* C9: a delete removes the row, every row that refers to a removed row through
\* a required reference, and no other; a row that refers to a removed row only
\* through optional references is kept, those references null and its other
\* columns as they were; no other row changes.
C9_DeletionFollowsPolicy ==
    [][(last'.op = "delete" /\ last'.exc = "none") =>
          LET gone == Objects(db) \ Objects(db')
          IN  /\ Objects(db') \subseteq Objects(db)
              /\ \E target \in gone :
                    /\ target[1] = last'.model
                    /\ \A x \in Objects(db) :
                          (\E y \in gone : Refers(RequiredReferences, x, y)) => x \in gone
                    /\ \A x \in gone \ {target} :
                          \E y \in gone : Refers(RequiredReferences, x, y)
              /\ \A t \in Models : \A r \in db[t] :
                    <<t, r.id>> \notin gone => Nulled(t, r, gone) \in db'[t]]_vars

\* C9's case: the delete of a Supplier removed its PurchaseOrder and the
\* order's PurchaseOrderDetail, and a GoodsReceipt is stored with a null
\* purchase_order.
C9_Witness ==
    /\ last.op = "delete" /\ last.model = "Supplier"
    /\ last.deleted =
          {<<"Supplier", 1>>, <<"PurchaseOrder", 1>>, <<"PurchaseOrderDetail", 1>>}
    /\ \E g \in db["GoodsReceipt"] : g.purchase_order = NULL
    /\ db["Product"] # {} /\ db["Warehouse"] # {}

Of(rows, column, parents) == {r \in rows : \E p \in parents : r[column] = p.id}

\* C10: deleting a Warehouse removes it, its Inventory rows, its PurchaseOrders
\* and their PurchaseOrderDetails, its GoodsReceipts and their
\* GoodsReceiptDetails, its Sales and their SaleDetails and its WriteOffs, and
\* nothing else: every Product, Batch, Supplier and Customer stays, and a
\* GoodsReceipt of another Warehouse that refers to a removed PurchaseOrder stays
\* with a null purchase_order and its GoodsReceiptDetails.
C10_WarehouseDelete ==
    [][\A w \in db["Warehouse"] : Deleted("Warehouse", w.id) =>
          LET orders == Of(db["PurchaseOrder"], "warehouse", {w})
              receipts == Of(db["GoodsReceipt"], "warehouse", {w})
              sales == Of(db["Sale"], "warehouse", {w})
              kept == db["GoodsReceipt"] \ receipts
          IN  /\ db'["Warehouse"] = db["Warehouse"] \ {w}
              /\ db'["Inventory"] =
                    db["Inventory"] \ Of(db["Inventory"], "warehouse", {w})
              /\ db'["PurchaseOrder"] = db["PurchaseOrder"] \ orders
              /\ db'["PurchaseOrderDetail"] =
                    db["PurchaseOrderDetail"]
                       \ Of(db["PurchaseOrderDetail"], "purchase_order", orders)
              /\ db'["GoodsReceipt"] =
                    (kept \ Of(kept, "purchase_order", orders))
                       \cup {[g EXCEPT !.purchase_order = NULL] :
                                g \in Of(kept, "purchase_order", orders)}
              /\ db'["GoodsReceiptDetail"] =
                    db["GoodsReceiptDetail"]
                       \ Of(db["GoodsReceiptDetail"], "goods_receipt", receipts)
              /\ db'["Sale"] = db["Sale"] \ sales
              /\ db'["SaleDetail"] =
                    db["SaleDetail"] \ Of(db["SaleDetail"], "sale", sales)
              /\ db'["WriteOff"] =
                    db["WriteOff"] \ Of(db["WriteOff"], "warehouse", {w})
              /\ \A t \in {"Product", "Batch", "Supplier", "Customer", "User"} :
                    db'[t] = db[t]]_vars

\* C10's case: the delete of a Warehouse removed its PurchaseOrder; the
\* GoodsReceipt of the other Warehouse is stored with a null purchase_order and
\* its GoodsReceiptDetail.
C10_Witness ==
    /\ last.op = "delete" /\ last.model = "Warehouse"
    /\ <<"PurchaseOrder", 1>> \in last.deleted
    /\ db["Warehouse"] # {} /\ db["Supplier"] # {}
    /\ \E g \in db["GoodsReceipt"] :
          /\ g.purchase_order = NULL
          /\ \E d \in db["GoodsReceiptDetail"] : d.goods_receipt = g.id

====
